---- MODULE Spec2Model ----
(***************************************************************************)
(* A model of the two CSV pipelines of this repository:                    *)
(*   process_csv.py    the generic, configuration-driven processor         *)
(*   clean_alibaba.py  the fixed four-column cleaner                       *)
(* Both read config.json once, stream the rows of an input table through   *)
(* a map/filter/generate loop into an output table, and rewrite            *)
(* config.json at the end so that the next run continues the numbering.    *)
(*                                                                         *)
(* Text is a sequence of one-character strings, so that trimming and       *)
(* number formatting are computed and not assumed.  A Python value held in *)
(* a row dictionary is a record tagged with its type (PyStr, PyInt,        *)
(* PyNone).  A Python dict whose order matters (source_mapping,            *)
(* generated_columns) is a sequence of <<key, value>> pairs; the other     *)
(* dicts are TLA+ functions on their keys, a missing key being a key that  *)
(* is not in the DOMAIN.                                                   *)
(***************************************************************************)
EXTENDS Integers, Sequences, FiniteSets, TLC

\* ------------------------------------------------------------------ bounds
\* Data rows the reader yields in one run, and runs started in one behaviour.
MaxRows == 2
MaxRuns == 2

Procs == {1, 2}

\* ------------------------------------------------------------ text, values
Whitespace == {" "}

RECURSIVE lstrip(_)
lstrip(s) == IF s # <<>> /\ Head(s) \in Whitespace THEN lstrip(Tail(s)) ELSE s

RECURSIVE rstrip(_)
rstrip(s) ==
    IF s # <<>> /\ s[Len(s)] \in Whitespace
    THEN rstrip(SubSeq(s, 1, Len(s) - 1))
    ELSE s

\* str.strip()
strip(s) == rstrip(lstrip(s))

Digit(d) ==
    CASE d = 0 -> "0" [] d = 1 -> "1" [] d = 2 -> "2" [] d = 3 -> "3"
      [] d = 4 -> "4" [] d = 5 -> "5" [] d = 6 -> "6" [] d = 7 -> "7"
      [] d = 8 -> "8" [] d = 9 -> "9"

\* str(n) of a non-negative int: its decimal digits.
RECURSIVE str(_)
str(n) == IF n < 10 THEN <<Digit(n)>> ELSE Append(str(n \div 10), Digit(n % 10))

PyStr(s) == [t |-> "str", v |-> s]
PyInt(n) == [t |-> "int", v |-> n]
PyNone == [t |-> "NoneType"]

\* dict.get(k, default)
Get(d, k, default) == IF k \in DOMAIN d THEN d[k] ELSE default

Range(s) == {s[i] : i \in 1..Len(s)}

\* The keys and the values of an ordered dict (a sequence of pairs).
Keys(od) == [i \in 1..Len(od) |-> od[i][1]]
Values(od) == [i \in 1..Len(od) |-> od[i][2]]

\* ------------------------------------------------------------- csv module
\* csv.DictReader: the dict of one data line.  A line shorter than the header
\* gets restval (None) for the fields it lacks; of two header fields with one
\* name the later wins.
DictReaderRow(fieldnames, line) ==
    [c \in Range(fieldnames) |->
        LET i == CHOOSE j \in 1..Len(fieldnames) :
                    /\ fieldnames[j] = c
                    /\ \A k \in 1..Len(fieldnames) : fieldnames[k] = c => k <= j
        IN  IF i <= Len(line) THEN PyStr(line[i]) ELSE PyNone]

\* The text the writer puts in a cell: a str as it is, an int by str().
CsvField(value) ==
    CASE value.t = "str" -> value.v
      [] value.t = "int" -> str(value.v)
      [] OTHER -> <<>>

\* csv.DictWriter.writerow: extrasaction='raise' refuses a dict with a key that
\* is not a fieldname (ValueError); a fieldname the dict lacks gets restval ''.
WriterRaises(fieldnames, rowdict) == ~(DOMAIN rowdict \subseteq Range(fieldnames))

WriterLine(fieldnames, rowdict) ==
    [i \in 1..Len(fieldnames) |->
        IF fieldnames[i] \in DOMAIN rowdict
        THEN CsvField(rowdict[fieldnames[i]])
        ELSE <<>>]

\* ---------------------------------------------------------- configuration
\* k.startswith('_'): the keys of the model that begin with the comment marker.
CommentKeys == {"_comment", "_note"}

IsComment(k) == k \in CommentKeys

CleanDict(d) == [k \in {j \in DOMAIN d : ~IsComment(j)} |-> d[k]]

CleanOrdered(od) == SelectSeq(od, LAMBDA kv : ~IsComment(kv[1]))

\* clean_config: drops the comment keys of the document, of its sections and
\* of every generator's configuration.
clean_config(data) ==
    LET top == CleanDict(data)
        gens(od) == LET c == CleanOrdered(od)
                    IN  [i \in 1..Len(c) |-> <<c[i][1], CleanDict(c[i][2])>>]
        cols(d) == LET c == CleanDict(d)
                   IN  [j \in DOMAIN c |->
                          IF j = "source_mapping" THEN CleanOrdered(c[j]) ELSE c[j]]
        section(k) ==
            CASE k = "generated_columns" -> gens(top[k])
              [] k = "columns" -> cols(top[k])
              [] k \in {"files", "filters", "output_settings", "processing"} ->
                    CleanDict(top[k])
              [] OTHER -> top[k]
    IN  [k \in DOMAIN top |-> section(k)]

EmptyDict == <<>>

\* The configuration documents of process_csv.py the model starts from.  Every
\* one carries comment keys; a key left out takes the code's default.
SourceMapping == << <<"title", "h1">>, <<"price", "h2">>, <<"_note", "h1">> >>

GeneratedChoices ==
    { <<>>,
      << <<"id", [type |-> "sequential", start |-> 100, _note |-> "first id"]>> >>,
      << <<"id", [type |-> "sequential", start |-> 100, step |-> 2]>> >>,
      << <<"id", [type |-> "sequential"]>>,
         <<"sku", [type |-> "random_hex", length |-> 1]>> >>,
      << <<"title", [type |-> "static", value |-> <<"X">>]>> >> }

FilterChoices ==
    { EmptyDict,
      [remove_blank_rows |-> FALSE],
      [remove_duplicates |-> TRUE],
      [remove_duplicates |-> TRUE, duplicate_check_column |-> "title"],
      [remove_blank_rows |-> FALSE, remove_duplicates |-> TRUE,
       duplicate_check_column |-> "title"] }

OrderChoices == { <<>>, <<"id", "title", "price">>, <<"title", "id">> }

ProcessingChoices ==
    { [verbose_logging |-> FALSE],
      [update_product_id_start |-> TRUE],
      [update_product_id_start |-> TRUE, auto_update_config |-> FALSE] }

ProcessDocs ==
    { [_comment |-> "edit me",
       columns |-> [source_mapping |-> SourceMapping],
       generated_columns |-> g,
       filters |-> f,
       output_settings |-> [column_order |-> o],
       processing |-> pr] :
         g \in GeneratedChoices, f \in FilterChoices,
         o \in OrderChoices, pr \in ProcessingChoices }

\* The input tables: the header the reader finds, and the text of a cell.
Headers == { <<"h1", "h2">>, <<"h1">> }
Cells == { <<>>, <<" ">>, <<"a">>, <<" ", "a", " ">>, <<"b">> }

\* What random.choices, uuid4 and datetime.now hand to a generator.
HexAlphabet == {"0", "f"}
Fresh == { [i \in 1..12 |-> c] : c \in HexAlphabet }

\* The data lines of a table with this header: a line holds at least one
\* field (the reader skips empty lines) and may be shorter than the header.
Lines(fieldnames, cells) ==
    UNION { [1..n -> cells] : n \in 1..Len(fieldnames) }

\* The configuration documents of clean_alibaba.py, its default document
\* (load_config, lines 35-50) and its input tables.
DefaultUrl == "searchx-product-e-slider__link href"
DefaultImg == "searchx-product-e-slider__img src"
DefaultPrice == "searchx-product-price-price-main"
DefaultTitle == "searchx-product-e-title"

DefaultStart == 1094100

default_config ==
    [product_id_start |-> DefaultStart,
     generate_random_sku |-> TRUE,
     category |-> <<"C", "a", "m">>,
     tags |-> <<"c", "a", "m">>,
     output_settings |-> [remove_blank_rows |-> TRUE, encoding |-> "utf-8"],
     column_mapping |-> [source_product_url |-> DefaultUrl,
                         source_image_url |-> DefaultImg,
                         source_price |-> DefaultPrice,
                         source_title |-> DefaultTitle]]

AlibabaDocs ==
    { default_config,
      [generate_random_sku |-> FALSE],
      [product_id_start |-> 7, generate_random_sku |-> FALSE,
       output_settings |-> [remove_blank_rows |-> FALSE],
       column_mapping |-> [source_title |-> "t"]] }

AlibabaHeaders ==
    { <<DefaultUrl, DefaultImg, DefaultPrice, DefaultTitle>>,
      <<DefaultUrl, DefaultImg, DefaultPrice, "t">> }
AlibabaCells == { <<>>, <<" ", "a">> }

\* ------------------------------------------------------------------ state
VARIABLES
    prog,               \* the script this installation runs
    doc_exists, doc,    \* config.json
    runs,               \* runs started so far
    pc,                 \* per process: "idle", "main", "rows", "done"
    config,             \* the configuration the process holds in memory
    fieldnames,         \* reader.fieldnames
    outfile,            \* the output file of the process
    stats, seen_values, row_number,
    current_product_id, \* clean_alibaba_csv's counter
    row,                \* the dict of the data line read last
    outcome,            \* what became of it: "kept", "blank", "duplicate", "raise"
    diag,               \* the error the run printed, "" when none
    cells,              \* the texts a cell of the input tables may hold
    kept_keys,          \* history: the duplicate keys of the rows kept so far
    start_read,         \* history: the cursor the run read from config.json
    overlapped,         \* history: a run started while another was under way
    issued,             \* history: the sequential values written by the runs
                        \* that ended with the cursor saved
    exit_code           \* the status main() returned; -1 while it runs

vars == <<prog, doc_exists, doc, runs, pc, config, fieldnames, outfile, stats,
          seen_values, row_number, current_product_id, row, outcome, diag,
          cells, kept_keys, start_read, overlapped, issued, exit_code>>

NoFile == [exists |-> FALSE, header |-> <<>>, rows |-> <<>>]
OldFile == [exists |-> TRUE, header |-> <<"old">>, rows |-> << << <<"o">> >> >>]

ZeroStats == [total_rows |-> 0, kept_rows |-> 0, blank_rows |-> 0,
              duplicate_rows |-> 0]

NoRow == EmptyDict

\* -------------------------------------------------- process_csv.py: pieces
\* A generate_value that honours a "step" key.
generate_value_Step(column_config, row_number_, previous_value, fresh) ==
    IF Get(column_config, "type", "static") = "sequential"
    THEN PyInt(Get(column_config, "start", 1)
               + row_number_ * Get(column_config, "step", 1))
    ELSE PyStr(Get(column_config, "value", <<>>))

\* generate_value.  previous_value is read by no generator type; fresh is what
\* the random source, uuid4 or the clock returns at this call.
generate_value(column_config, row_number_, previous_value, fresh) ==
    LET col_type == Get(column_config, "type", "static")
    IN  CASE col_type = "sequential" ->
                PyInt(Get(column_config, "start", 1) + row_number_)
          [] col_type = "random_hex" ->
                PyStr(SubSeq(fresh, 1, Get(column_config, "length", 12)))
          [] col_type = "uuid" -> PyStr(fresh)
          [] col_type = "static" -> PyStr(Get(column_config, "value", <<>>))
          [] col_type = "timestamp" -> PyStr(fresh)
          [] OTHER -> PyStr(<<>>)

\* A mapping loop that tests the raw cell, not the trimmed one, for blankness.
RECURSIVE MapColumns_NoStrip(_, _, _, _)
MapColumns_NoStrip(source_mapping, r, remove_blank, output_row) ==
    IF source_mapping = <<>>
    THEN [kind |-> "mapped", output_row |-> output_row]
    ELSE LET out_col == Head(source_mapping)[1]
             src_col == Head(source_mapping)[2]
             cell == Get(r, src_col, PyStr(<<>>))
         IN  IF cell.t # "str"
             THEN [kind |-> "raise", output_row |-> output_row]
             ELSE IF cell.v = <<>> /\ remove_blank
             THEN [kind |-> "blank", output_row |-> output_row]
             ELSE MapColumns_NoStrip(Tail(source_mapping), r, remove_blank,
                                     (out_col :> PyStr(strip(cell.v))) @@ output_row)

\* The mapping loop of process_csv: "raise" when .strip() is called on None,
\* "blank" at the first blank field when blank rows are removed.
RECURSIVE MapColumns(_, _, _, _)
MapColumns(source_mapping, r, remove_blank, output_row) ==
    IF source_mapping = <<>>
    THEN [kind |-> "mapped", output_row |-> output_row]
    ELSE LET out_col == Head(source_mapping)[1]
             src_col == Head(source_mapping)[2]
             cell == Get(r, src_col, PyStr(<<>>))
         IN  IF cell.t # "str"
             THEN [kind |-> "raise", output_row |-> output_row]
             ELSE IF strip(cell.v) = <<>> /\ remove_blank
             THEN [kind |-> "blank", output_row |-> output_row]
             ELSE MapColumns(Tail(source_mapping), r, remove_blank,
                             (out_col :> PyStr(strip(cell.v))) @@ output_row)

\* The duplicate check of process_csv.
IsDuplicate(remove_duplicates, dup_column, output_row, seen) ==
    /\ remove_duplicates
    /\ dup_column \in DOMAIN output_row
    /\ output_row[dup_column].v \in seen

\* A duplicate check that never records the key it let through.
Remember_Forget(remove_duplicates, dup_column, output_row, seen) == seen

Remember(remove_duplicates, dup_column, output_row, seen) ==
    IF remove_duplicates /\ dup_column \in DOMAIN output_row
    THEN seen \cup {output_row[dup_column].v}
    ELSE seen

\* The generation loop of process_csv.
RECURSIVE GenerateColumns(_, _, _, _)
GenerateColumns(generated_config, row_number_, fresh, output_row) ==
    IF generated_config = <<>>
    THEN output_row
    ELSE GenerateColumns(Tail(generated_config), row_number_, fresh,
            (Head(generated_config)[1] :>
                generate_value(Head(generated_config)[2], row_number_, PyNone, fresh))
            @@ output_row)

\* Counters that leave duplicate_rows alone.
Count_SkipDuplicate(st, kind) ==
    [st EXCEPT
        !.total_rows = @ + 1,
        !.blank_rows = IF kind = "blank" THEN @ + 1 ELSE @,
        !.kept_rows = IF kind = "kept" THEN @ + 1 ELSE @]

\* The counters after a row of this outcome (lines 152, 163, 176, 189): a row
\* whose pass raised is counted in total_rows alone.
Count(st, kind) ==
    [st EXCEPT
        !.total_rows = @ + 1,
        !.blank_rows = IF kind = "blank" THEN @ + 1 ELSE @,
        !.duplicate_rows = IF kind = "duplicate" THEN @ + 1 ELSE @,
        !.kept_rows = IF kind = "kept" THEN @ + 1 ELSE @]

\* The sections of the configuration as process_csv reads them.
source_mapping_of(cfg) == Get(Get(cfg, "columns", EmptyDict), "source_mapping", <<>>)
generated_config_of(cfg) == Get(cfg, "generated_columns", <<>>)
remove_blank_of(cfg) == Get(Get(cfg, "filters", EmptyDict), "remove_blank_rows", TRUE)
remove_duplicates_of(cfg) ==
    Get(Get(cfg, "filters", EmptyDict), "remove_duplicates", FALSE)
dup_column_of(cfg) ==
    Get(Get(cfg, "filters", EmptyDict), "duplicate_check_column", "")
column_order_of(cfg) ==
    Get(Get(cfg, "output_settings", EmptyDict), "column_order", <<>>)

output_columns_of(cfg) ==
    IF column_order_of(cfg) # <<>>
    THEN column_order_of(cfg)
    ELSE Keys(source_mapping_of(cfg)) \o Keys(generated_config_of(cfg))

\* update_sequential_starts: the configuration with every sequential start
\* advanced, and whether any was.
\* A cursor update that writes the old start back.
advance_starts_Stale(generated, rows_processed) == generated

advance_starts(generated, rows_processed) ==
    [i \in 1..Len(generated) |->
        IF Get(generated[i][2], "type", "") = "sequential"
        THEN <<generated[i][1],
               ("start" :> (Get(generated[i][2], "start", 1) + rows_processed))
               @@ generated[i][2]>>
        ELSE generated[i]]

has_sequential(generated) ==
    \E i \in 1..Len(generated) : Get(generated[i][2], "type", "") = "sequential"

\* A cursor update that counts one row too many.
update_sequential_starts_OffByOne(cfg, rows_processed) ==
    IF "generated_columns" \in DOMAIN cfg
    THEN [cfg EXCEPT !["generated_columns"] = advance_starts(@, rows_processed + 1)]
    ELSE cfg

update_sequential_starts(cfg, rows_processed) ==
    IF "generated_columns" \in DOMAIN cfg
    THEN [cfg EXCEPT !["generated_columns"] = advance_starts(@, rows_processed)]
    ELSE cfg

config_is_rewritten(cfg) ==
    /\ has_sequential(generated_config_of(cfg))
    /\ Get(Get(cfg, "processing", EmptyDict), "auto_update_config", TRUE)

\* ------------------------------------------------ clean_alibaba.py: pieces
\* COLUMNS_TO_KEEP: source column -> output column, in the order of the literal.
COLUMNS_TO_KEEP(cfg) ==
    LET col_map == Get(cfg, "column_mapping", EmptyDict)
    IN  << <<Get(col_map, "source_product_url", DefaultUrl), "product_url">>,
           <<Get(col_map, "source_image_url", DefaultImg), "image_url">>,
           <<Get(col_map, "source_price", DefaultPrice), "price">>,
           <<Get(col_map, "source_title", DefaultTitle), "title">> >>

alibaba_output_columns ==
    <<"product_id", "product_url", "image_url", "price", "title", "sku",
      "category", "tags">>

\* The extraction loop of clean_alibaba_csv: it stops at the first blank cell
\* whatever remove_blank_rows says.
RECURSIVE ExtractColumns(_, _, _)
ExtractColumns(columns, r, cleaned_row) ==
    IF columns = <<>>
    THEN [kind |-> "mapped", cleaned_row |-> cleaned_row]
    ELSE LET old_col == Head(columns)[1]
             new_col == Head(columns)[2]
             cell == Get(r, old_col, PyStr(<<>>))
         IN  IF cell.t # "str"
             THEN [kind |-> "raise", cleaned_row |-> cleaned_row]
             ELSE IF strip(cell.v) = <<>>
             THEN [kind |-> "blank", cleaned_row |-> cleaned_row]
             ELSE ExtractColumns(Tail(columns), r,
                                 (new_col :> PyStr(strip(cell.v))) @@ cleaned_row)

\* The generated fields of clean_alibaba_csv (lines 149-152).
AddGenerated(cfg, product_id, fresh, cleaned_row) ==
    ("product_id" :> PyInt(product_id))
    @@ ("sku" :> PyStr(IF Get(cfg, "generate_random_sku", TRUE)
                       THEN fresh
                       ELSE <<"S", "K", "U">> \o str(product_id)))
    @@ ("category" :> PyStr(Get(cfg, "category", <<"U", "n", "c">>)))
    @@ ("tags" :> PyStr(Get(cfg, "tags", <<>>)))
    @@ cleaned_row

\* ---------------------------------------------------------------- actions
shared == <<prog, doc_exists, doc, cells, issued>>

rowvars == <<stats, seen_values, row_number, current_product_id, row, outcome,
             kept_keys>>

runvars == <<runs, start_read, overlapped>>

\* The duplicate key of a data row, as the input has it: the trimmed text of
\* the source field mapped to duplicate_check_column, when duplicates are
\* removed and the column is mapped.
KeyOf(cfg, r) ==
    IF remove_duplicates_of(cfg)
    THEN { strip(r[source_mapping_of(cfg)[i][2]].v) :
             i \in { j \in 1..Len(source_mapping_of(cfg)) :
                        source_mapping_of(cfg)[j][1] = dup_column_of(cfg) } }
    ELSE {}

\* The locals a run starts with (process_csv lines 112-121, clean_alibaba_csv
\* lines 97-104).
Reset(p, first_id) ==
    /\ stats' = [stats EXCEPT ![p] = ZeroStats]
    /\ seen_values' = [seen_values EXCEPT ![p] = {}]
    /\ row_number' = [row_number EXCEPT ![p] = 0]
    /\ current_product_id' = [current_product_id EXCEPT ![p] = first_id]
    /\ fieldnames' = [fieldnames EXCEPT ![p] = <<>>]
    /\ row' = [row EXCEPT ![p] = NoRow]
    /\ outcome' = [outcome EXCEPT ![p] = "none"]
    /\ kept_keys' = [kept_keys EXCEPT ![p] = {}]

\* main(): the function returned True and the process exits 0, or it printed
\* message and returned False, and the process exits 1.
Return(p, success, message) ==
    /\ pc' = [pc EXCEPT ![p] = "done"]
    /\ diag' = [diag EXCEPT ![p] = message]
    /\ exit_code' = [exit_code EXCEPT ![p] = IF success THEN 0 ELSE 1]

\* The cursor a configuration holds: the start of each sequential generator
\* of process_csv.py, the product_id_start of clean_alibaba.py.
Cursor(d) ==
    IF prog = "process_csv"
    THEN LET gen == generated_config_of(clean_config(d))
             seq == { i \in 1..Len(gen) : Get(gen[i][2], "type", "") = "sequential" }
         IN  [n \in { gen[i][1] : i \in seq } |->
                Get(gen[CHOOSE i \in seq : gen[i][1] = n][2], "start", 1)]
    ELSE [n \in {"product_id"} |-> Get(d, "product_id_start", DefaultStart)]

\* The cells of the output file of p in the columns of the cursor.
SequentialCellsWritten(p) ==
    { <<outfile[p].header[j], outfile[p].rows[k][j]>> :
        j \in { i \in 1..Len(outfile[p].header) :
                    outfile[p].header[i] \in DOMAIN start_read[p] },
        k \in 1..Len(outfile[p].rows) }

Starts(p) ==
    /\ pc[p] \in {"idle", "done"}
    /\ runs < MaxRuns
    /\ runs' = runs + 1
    /\ overlapped' = (overlapped \/ \E q \in Procs \ {p} : pc[q] \in {"main", "rows"})

\* load_config of process_csv.py, config.json present.
LoadConfig(p) ==
    /\ prog = "process_csv"
    /\ Starts(p)
    /\ doc_exists
    /\ config' = [config EXCEPT ![p] = clean_config(doc)]
    /\ start_read' = [start_read EXCEPT ![p] = Cursor(doc)]
    /\ pc' = [pc EXCEPT ![p] = "main"]
    /\ diag' = [diag EXCEPT ![p] = ""]
    /\ exit_code' = [exit_code EXCEPT ![p] = -1]
    /\ Reset(p, 0)
    /\ UNCHANGED <<shared, outfile>>

\* load_config of process_csv.py, config.json absent: sys.exit(1).
ConfigMissing(p) ==
    /\ prog = "process_csv"
    /\ Starts(p)
    /\ ~doc_exists
    /\ Return(p, FALSE, "config not found")
    /\ Reset(p, 0)
    /\ UNCHANGED <<shared, config, outfile, start_read>>

\* load_config of clean_alibaba.py: the document as it is, comment keys
\* included; an absent config.json is created with the default document.
AlibabaLoadConfig(p) ==
    /\ prog = "clean_alibaba"
    /\ Starts(p)
    /\ LET loaded == IF doc_exists THEN doc ELSE default_config
       IN  /\ config' = [config EXCEPT ![p] = loaded]
           /\ doc' = loaded
           /\ doc_exists' = TRUE
           /\ start_read' = [start_read EXCEPT ![p] = Cursor(loaded)]
           /\ Reset(p, Get(loaded, "product_id_start", DefaultStart))
    /\ pc' = [pc EXCEPT ![p] = "main"]
    /\ diag' = [diag EXCEPT ![p] = ""]
    /\ exit_code' = [exit_code EXCEPT ![p] = -1]
    /\ UNCHANGED <<prog, cells, issued, outfile>>

\* A header check that requires nothing.
required_columns_None(cfg) == {}

\* The source columns the run requires of the header, the headers of its
\* input tables and the header it writes.
required_columns(cfg) ==
    IF prog = "process_csv"
    THEN Range(Values(source_mapping_of(cfg)))
    ELSE Range(Keys(COLUMNS_TO_KEEP(cfg)))

InputHeaders == IF prog = "process_csv" THEN Headers ELSE AlibabaHeaders

written_header(cfg) ==
    IF prog = "process_csv" THEN output_columns_of(cfg) ELSE alibaba_output_columns

\* open(input_file) raises FileNotFoundError.
InputNotFound(p) ==
    /\ pc[p] = "main"
    /\ Return(p, FALSE, "input not found")
    /\ UNCHANGED <<shared, runvars, config, fieldnames, outfile, rowvars>>

\* reader.fieldnames is None: the input is empty.
NoHeaders(p) ==
    /\ pc[p] = "main"
    /\ Return(p, FALSE, "no headers")
    /\ UNCHANGED <<shared, runvars, config, fieldnames, outfile, rowvars>>

\* A required source column is not in the header.
MissingColumns(p) ==
    /\ pc[p] = "main"
    /\ \E h \in InputHeaders :
        /\ required_columns(config[p]) \ Range(h) # {}
        /\ fieldnames' = [fieldnames EXCEPT ![p] = h]
    /\ Return(p, FALSE, "missing columns")
    /\ UNCHANGED <<shared, runvars, config, outfile, rowvars>>

\* The header has every required column: the output file is opened for
\* writing (created or truncated) and its header line written.
OpenOutput(p) ==
    /\ pc[p] = "main"
    /\ \E h \in InputHeaders :
        /\ required_columns(config[p]) \ Range(h) = {}
        /\ fieldnames' = [fieldnames EXCEPT ![p] = h]
    /\ outfile' = [outfile EXCEPT ![p] =
            [exists |-> TRUE, header |-> written_header(config[p]), rows |-> <<>>]]
    /\ pc' = [pc EXCEPT ![p] = "rows"]
    /\ UNCHANGED <<shared, runvars, config, rowvars, diag, exit_code>>

\* The values the environment may hand to the generators of this run.
random_types == {"random_hex", "uuid", "timestamp"}

FreshFor(cfg) ==
    IF \E i \in 1..Len(generated_config_of(cfg)) :
            Get(generated_config_of(cfg)[i][2], "type", "static") \in random_types
    THEN Fresh
    ELSE {<<>>}

\* One pass of the row loop of process_csv (lines 151-190), with the except
\* clause of lines 227-231 when the pass raises.
ProcessRow(p) ==
    /\ prog = "process_csv"
    /\ pc[p] = "rows"
    /\ stats[p].total_rows < MaxRows
    /\ \E line \in Lines(fieldnames[p], cells), fresh \in FreshFor(config[p]) :
        LET cfg == config[p]
            r == DictReaderRow(fieldnames[p], line)
            m == MapColumns(source_mapping_of(cfg), r, remove_blank_of(cfg), EmptyDict)
            dup == IsDuplicate(remove_duplicates_of(cfg), dup_column_of(cfg),
                               m.output_row, seen_values[p])
            full == GenerateColumns(generated_config_of(cfg), row_number[p], fresh,
                                    m.output_row)
            kind == CASE m.kind = "raise" -> "raise"
                      [] m.kind = "blank" -> "blank"
                      [] dup -> "duplicate"
                      [] WriterRaises(outfile[p].header, full) -> "raise"
                      [] OTHER -> "kept"
        IN  /\ row' = [row EXCEPT ![p] = r]
            /\ outcome' = [outcome EXCEPT ![p] = kind]
            /\ stats' = [stats EXCEPT ![p] = Count(@, kind)]
            /\ seen_values' = [seen_values EXCEPT ![p] =
                    IF m.kind = "mapped" /\ ~dup
                    THEN Remember(remove_duplicates_of(cfg), dup_column_of(cfg),
                                  m.output_row, @)
                    ELSE @]
            /\ kept_keys' = [kept_keys EXCEPT ![p] =
                    IF kind = "kept" THEN @ \cup KeyOf(cfg, r) ELSE @]
            /\ outfile' = [outfile EXCEPT ![p].rows =
                    IF kind = "kept"
                    THEN Append(@, WriterLine(outfile[p].header, full))
                    ELSE @]
            /\ row_number' = [row_number EXCEPT ![p] =
                    IF kind = "kept" THEN @ + 1 ELSE @]
            /\ IF kind = "raise"
               THEN Return(p, FALSE, "exception")
               ELSE UNCHANGED <<pc, diag, exit_code>>
    /\ UNCHANGED <<shared, runvars, config, fieldnames, current_product_id>>

\* The reader is exhausted: the summary, the cursor update when
\* update_product_id_start is set (lines 218-220, 234-253), return True.
\* Writing config.json may fail, which only prints a warning.
EndOfInput(p) ==
    /\ prog = "process_csv"
    /\ pc[p] = "rows"
    /\ LET cfg == config[p]
           update == Get(Get(cfg, "processing", EmptyDict),
                         "update_product_id_start", FALSE)
           newcfg == IF update THEN update_sequential_starts(cfg, row_number[p])
                     ELSE cfg
       IN  /\ config' = [config EXCEPT ![p] = newcfg]
           /\ IF update /\ config_is_rewritten(cfg)
              THEN \E written \in BOOLEAN :
                      /\ doc' = IF written THEN newcfg ELSE doc
                      /\ doc_exists' = (written \/ doc_exists)
                      /\ issued' = IF written
                                    THEN issued \cup SequentialCellsWritten(p)
                                    ELSE issued
                      /\ Return(p, TRUE, IF written THEN "" ELSE "config not updated")
              ELSE /\ UNCHANGED <<doc, doc_exists, issued>>
                   /\ Return(p, TRUE, "")
    /\ UNCHANGED <<prog, cells, runvars, fieldnames, outfile, rowvars>>

\* One pass of the row loop of clean_alibaba_csv (lines 128-158), with the
\* except clause of lines 199-203 when the pass raises.
CleanRow(p) ==
    /\ prog = "clean_alibaba"
    /\ pc[p] = "rows"
    /\ stats[p].total_rows < MaxRows
    /\ \E line \in Lines(fieldnames[p], cells),
          fresh \in (IF Get(config[p], "generate_random_sku", TRUE)
                     THEN Fresh ELSE {<<>>}) :
        LET cfg == config[p]
            r == DictReaderRow(fieldnames[p], line)
            m == ExtractColumns(COLUMNS_TO_KEEP(cfg), r, EmptyDict)
            remove_blank_rows ==
                Get(Get(cfg, "output_settings", EmptyDict), "remove_blank_rows", TRUE)
            kind == CASE m.kind = "raise" -> "raise"
                      [] m.kind = "blank" /\ remove_blank_rows -> "blank"
                      [] OTHER -> "kept"
            full == AddGenerated(cfg, current_product_id[p], fresh, m.cleaned_row)
        IN  /\ row' = [row EXCEPT ![p] = r]
            /\ outcome' = [outcome EXCEPT ![p] = kind]
            \* blank_rows is blank_cell_rows, duplicate_rows is never counted
            \* and deleted_rows always equals the rows dropped as blank.
            /\ stats' = [stats EXCEPT
                    ![p].total_rows = @ + 1,
                    ![p].blank_rows = IF m.kind = "blank" THEN @ + 1 ELSE @,
                    ![p].kept_rows = IF kind = "kept" THEN @ + 1 ELSE @]
            /\ outfile' = [outfile EXCEPT ![p].rows =
                    IF kind = "kept"
                    THEN Append(@, WriterLine(outfile[p].header, full))
                    ELSE @]
            /\ current_product_id' = [current_product_id EXCEPT ![p] =
                    IF kind = "kept" THEN @ + 1 ELSE @]
            /\ IF kind = "raise"
               THEN Return(p, FALSE, "exception")
               ELSE UNCHANGED <<pc, diag, exit_code>>
    /\ UNCHANGED <<shared, runvars, config, fieldnames, seen_values, row_number,
                   kept_keys>>

\* The reader is exhausted: the summary, then config.json is rewritten with
\* the next product id (lines 188-194).  A failing write raises, and the run
\* returns False.
AlibabaEndOfInput(p) ==
    /\ prog = "clean_alibaba"
    /\ pc[p] = "rows"
    /\ LET newcfg == ("product_id_start" :> current_product_id[p]) @@ config[p]
       IN  /\ config' = [config EXCEPT ![p] = newcfg]
           /\ \E written \in BOOLEAN :
                /\ doc' = IF written THEN newcfg ELSE doc
                /\ issued' = IF written
                              THEN issued \cup SequentialCellsWritten(p)
                              ELSE issued
                /\ Return(p, written, IF written THEN "" ELSE "exception")
    /\ UNCHANGED <<prog, doc_exists, cells, runvars, fieldnames, outfile, rowvars>>

\* --------------------------------------------------------- specifications
InitWith(program, docs, alphabet) ==
    /\ prog = program
    /\ cells = alphabet
    /\ start_read = [p \in Procs |-> EmptyDict]
    /\ overlapped = FALSE
    /\ issued = {}
    /\ doc_exists \in BOOLEAN
    /\ doc \in docs
    /\ doc_exists \/ doc = CHOOSE d \in docs : TRUE
    /\ runs = 0
    /\ pc = [p \in Procs |-> "idle"]
    /\ config = [p \in Procs |-> EmptyDict]
    /\ fieldnames = [p \in Procs |-> <<>>]
    /\ outfile \in [Procs -> {NoFile, OldFile}]
    /\ outfile[2] = NoFile
    /\ stats = [p \in Procs |-> ZeroStats]
    /\ seen_values = [p \in Procs |-> {}]
    /\ row_number = [p \in Procs |-> 0]
    /\ current_product_id = [p \in Procs |-> 0]
    /\ row = [p \in Procs |-> NoRow]
    /\ outcome = [p \in Procs |-> "none"]
    /\ diag = [p \in Procs |-> ""]
    /\ kept_keys = [p \in Procs |-> {}]
    /\ exit_code = [p \in Procs |-> -1]

\* One run of either script, on any of its documents with the cursor advance on.
Init ==
    \/ InitWith("process_csv",
                {d \in ProcessDocs : d.processing = [update_product_id_start |-> TRUE]},
                Cells)
    \/ InitWith("clean_alibaba", AlibabaDocs, AlibabaCells)

Run(p) ==
    \/ LoadConfig(p)
    \/ ConfigMissing(p)
    \/ AlibabaLoadConfig(p)
    \/ InputNotFound(p)
    \/ NoHeaders(p)
    \/ MissingColumns(p)
    \/ OpenOutput(p)
    \/ ProcessRow(p)
    \/ EndOfInput(p)
    \/ CleanRow(p)
    \/ AlibabaEndOfInput(p)

\* A single run of process 1.
Next ==
    \/ runs = 0 /\ LoadConfig(1)
    \/ runs = 0 /\ ConfigMissing(1)
    \/ runs = 0 /\ AlibabaLoadConfig(1)
    \/ InputNotFound(1)
    \/ NoHeaders(1)
    \/ MissingColumns(1)
    \/ OpenOutput(1)
    \/ ProcessRow(1)
    \/ EndOfInput(1)
    \/ CleanRow(1)
    \/ AlibabaEndOfInput(1)

Spec == Init /\ [][Next]_vars

\* Runs of process 1 and process 2 on the same config.json, one after the
\* other or at the same time, on small tables.
RunsDocs ==
    { d \in ProcessDocs :
        /\ d.filters = EmptyDict
        /\ d.output_settings.column_order = <<>>
        /\ d.generated_columns \in
              { << <<"id", [type |-> "sequential", start |-> 100,
                            _note |-> "first id"]>> >>,
                << <<"id", [type |-> "sequential"]>>,
                   <<"sku", [type |-> "random_hex", length |-> 1]>> >> } }

InitRuns ==
    \/ InitWith("process_csv", RunsDocs, {<<"a">>, <<>>})
    \/ InitWith("clean_alibaba", AlibabaDocs, {<<"a">>})

NextRuns == \E p \in Procs : Run(p)

SpecRuns == InitRuns /\ [][NextRuns]_vars

\* ----------------------------------------------------------------- claims
IsProcessCsv == prog = "process_csv"
Mapping(p) == source_mapping_of(config[p])
Streaming(p) == pc[p] = "rows"
Succeeded(p) == pc[p] = "done" /\ exit_code[p] = 0
Failed(p) == pc[p] = "done" /\ exit_code[p] = 1

\* This step read a data row in process p.
ReadsRow(p) == stats'[p].total_rows = stats[p].total_rows + 1

\* The pairs <<output column, source column>> of the run, for either script.
MappedPairs(p) ==
    IF IsProcessCsv
    THEN { <<Mapping(p)[i][1], Mapping(p)[i][2]>> : i \in 1..Len(Mapping(p)) }
    ELSE { <<COLUMNS_TO_KEEP(config[p])[i][2], COLUMNS_TO_KEEP(config[p])[i][1]>> :
             i \in 1..4 }

GeneratedNames(p) == Range(Keys(generated_config_of(config[p])))

\* The row r lacks one of the mapped source fields (a short line).
HasAbsent(p, r) == \E m \in MappedPairs(p) : r[m[2]].t = "NoneType"

\* The row r has a mapped source field that is there and blank once trimmed.
HasBlank(p, r) ==
    \E m \in MappedPairs(p) : r[m[2]].t = "str" /\ strip(r[m[2]].v) = <<>>

LastLine(p) == outfile[p].rows[Len(outfile[p].rows)]

\* C1: in process_csv, while the rows stream and at the end of a successful
\* run, total_rows = kept_rows + blank_rows + duplicate_rows; a row whose pass
\* completes adds one to total_rows and one to exactly one outcome counter.
C1_Balanced(p) ==
    stats[p].total_rows =
        stats[p].kept_rows + stats[p].blank_rows + stats[p].duplicate_rows

C1_Inv ==
    \A p \in Procs :
        IsProcessCsv /\ (Streaming(p) \/ Succeeded(p)) => C1_Balanced(p)

C1_Step ==
    \A p \in Procs :
        IsProcessCsv /\ ReadsRow(p) /\ pc'[p] = "rows" =>
            \E k \in {"kept_rows", "blank_rows", "duplicate_rows"} :
                /\ stats'[p][k] = stats[p][k] + 1
                /\ \A j \in {"kept_rows", "blank_rows", "duplicate_rows"} \ {k} :
                        stats'[p][j] = stats[p][j]

C1_CountersBalance == []C1_Inv /\ [][C1_Step]_vars

C1_Witness ==
    \E p \in Procs :
        /\ IsProcessCsv /\ Succeeded(p)
        /\ stats[p] = [total_rows |-> 2, kept_rows |-> 1, blank_rows |-> 0,
                       duplicate_rows |-> 1]

\* C2: in process_csv a row is dropped and counted in blank_rows exactly when
\* remove_blank_rows is set and a mapped source field is blank once trimmed;
\* it adds 1 to blank_rows however many of its fields are blank; with
\* remove_blank_rows off no row is dropped or counted as blank, and a kept row
\* has the empty string in every mapped column whose source field is blank
\* (a column that a generator of the same name fills aside).
C2_Step ==
    \A p \in Procs :
        IsProcessCsv /\ ReadsRow(p) =>
            LET blank == remove_blank_of(config[p]) /\ HasBlank(p, row'[p])
            IN  /\ (outcome'[p] = "blank") <=> blank
                /\ stats'[p].blank_rows =
                        stats[p].blank_rows + (IF blank THEN 1 ELSE 0)
                /\ outcome'[p] = "blank" =>
                        outfile'[p] = outfile[p] /\ pc'[p] = "rows"
                /\ outcome'[p] = "kept" =>
                        \A m \in MappedPairs(p), j \in 1..Len(outfile[p].header) :
                            /\ outfile[p].header[j] = m[1]
                            /\ m[1] \notin GeneratedNames(p)
                            /\ strip(row'[p][m[2]].v) = <<>>
                            => outfile'[p].rows[Len(outfile'[p].rows)][j] = <<>>

Dedups(p) ==
    /\ remove_duplicates_of(config[p])
    /\ \E m \in MappedPairs(p) : m[1] = dup_column_of(config[p])

C3_Inv ==
    \A p \in Procs :
        IsProcessCsv /\ Dedups(p) /\ (Streaming(p) \/ Succeeded(p)) =>
            /\ seen_values[p] = kept_keys[p]
            /\ Cardinality(kept_keys[p]) = stats[p].kept_rows

C3_Step ==
    \A p \in Procs :
        IsProcessCsv /\ Dedups(p) /\ ReadsRow(p)
        /\ outcome'[p] \in {"kept", "duplicate"} =>
            /\ (outcome'[p] = "kept") <=>
                    (KeyOf(config[p], row'[p]) \cap kept_keys[p] = {})
            /\ outcome'[p] = "duplicate" =>
                    /\ stats'[p].duplicate_rows = stats[p].duplicate_rows + 1
                    /\ seen_values'[p] = seen_values[p]
                    /\ outfile'[p] = outfile[p]

C3_FirstOccurrenceKept == []C3_Inv /\ [][C3_Step]_vars

C3_Witness ==
    \E p \in Procs :
        /\ IsProcessCsv /\ Dedups(p) /\ outcome[p] = "duplicate"
        /\ row[p]["h1"] = PyStr(<<" ", "a", " ">>)
        /\ kept_keys[p] = {<<"a">>}
        /\ stats[p].kept_rows = 1 /\ stats[p].duplicate_rows = 1

\* C4: in process_csv the cells a sequential generator wrote, in output order,
\* are start, start + 1, start + 2, ...: the k-th kept row (k from 0) gets
\* start + k, whatever "step" the configuration gives, and a dropped row uses
\* up no value.  The claim as stated has start + k * step.
SequentialCells(p, step(_)) ==
    \A i \in 1..Len(generated_config_of(config[p])) :
        LET name == generated_config_of(config[p])[i][1]
            spec == generated_config_of(config[p])[i][2]
        IN  Get(spec, "type", "static") = "sequential" =>
                \A j \in 1..Len(outfile[p].header), k \in 1..Len(outfile[p].rows) :
                    outfile[p].header[j] = name =>
                        outfile[p].rows[k][j] =
                            str(Get(spec, "start", 1) + (k - 1) * step(spec))

ConfiguredStep(spec) == Get(spec, "step", 1)
UnitStep(spec) == 1

C4_StepIsConfigured ==
    \A p \in Procs :
        IsProcessCsv /\ Streaming(p) => SequentialCells(p, ConfiguredStep)

C4_StepIsOne ==
    \A p \in Procs : IsProcessCsv /\ Streaming(p) => SequentialCells(p, UnitStep)

C4_Witness ==
    \E p \in Procs :
        /\ IsProcessCsv /\ Streaming(p)
        /\ \E i \in 1..Len(generated_config_of(config[p])) :
                /\ generated_config_of(config[p])[i][1] = "id"
                /\ Get(generated_config_of(config[p])[i][2], "step", 1) = 2
        /\ outfile[p].header = <<"title", "price", "id">>
        /\ Len(outfile[p].rows) = 2
        /\ outfile[p].rows[2][3] = <<"1", "0", "1">>

\* C6: when the header lacks a required source column, or the input is
\* empty or not there, the run has returned False and the process exits 1,
\* the output file is as it was (not created, not truncated), no data row was
\* read, and the cursor config.json holds is the one the run loaded.
LacksColumn(p) ==
    /\ fieldnames[p] # <<>>
    /\ \E m \in MappedPairs(p) : m[2] \notin Range(fieldnames[p])

NoInput(p) == diag[p] \in {"input not found", "no headers"}

C6_MissingColumnAborts ==
    \A p \in Procs :
        LacksColumn(p) \/ NoInput(p) =>
            /\ Failed(p)
            /\ outfile[p] \in {NoFile, OldFile}
            /\ stats[p] = ZeroStats /\ outcome[p] = "none"
            /\ doc_exists
            /\ Cursor(clean_config(doc)) = Cursor(config[p])

C6_Witness ==
    \E p \in Procs :
        /\ LacksColumn(p) /\ diag[p] = "missing columns"
        /\ Failed(p) /\ outfile[p] = OldFile

\* C7: every line written by either script has, in each mapped output
\* column, the trimmed text of its source field in the row it was made from
\* (the empty string where the row lacks the field).
C7_RoundTrip ==
    \A p \in Procs :
        outcome[p] = "kept" =>
            \A m \in MappedPairs(p), j \in 1..Len(outfile[p].header) :
                outfile[p].header[j] = m[1] =>
                    LastLine(p)[j] =
                        IF row[p][m[2]].t = "str" THEN strip(row[p][m[2]].v)
                        ELSE <<>>

\* C8: a run of process_csv that returned False has not touched the output
\* file: whatever the configuration, no failure comes after the output was
\* opened.  Stated for rows that have all their fields.
C8_FailFast ==
    \A p \in Procs :
        /\ IsProcessCsv /\ Failed(p)
        /\ (outcome[p] # "none" => ~HasAbsent(p, row[p]))
        => outfile[p] \in {NoFile, OldFile}

\* C9: a row that lacks a mapped source field is handled as if the field
\* were empty: dropped as blank when blank rows are removed, written
\* otherwise, and the run does not fail on it.
RemovesBlank(p) ==
    IF IsProcessCsv
    THEN remove_blank_of(config[p])
    ELSE Get(Get(config[p], "output_settings", EmptyDict), "remove_blank_rows", TRUE)

C9_AbsentAsEmpty ==
    \A p \in Procs :
        outcome[p] # "none" /\ HasAbsent(p, row[p]) =>
            /\ ~Failed(p)
            /\ outcome[p] = (IF RemovesBlank(p) THEN "blank" ELSE "kept")

\* C5: a successful run with the cursor advance on leaves in config.json,
\* for every sequential generator, the start the run read plus the number of
\* rows it kept, so that runs that follow one another never write a value
\* twice.  The advance is on in process_csv when update_product_id_start is
\* true and auto_update_config is not false; the claim as stated has
\* update_product_id_start alone.  It is always on in clean_alibaba_csv.  A
\* run that could not write config.json (it says so) is left aside.
UpdateFlag(cfg) ==
    Get(Get(cfg, "processing", EmptyDict), "update_product_id_start", FALSE)

AutoFlag(cfg) == Get(Get(cfg, "processing", EmptyDict), "auto_update_config", TRUE)

EndsWell(p) == pc[p] = "rows" /\ pc'[p] = "done" /\ exit_code'[p] = 0 /\ diag'[p] = ""

Advanced(p) ==
    Cursor(doc') =
        [n \in DOMAIN start_read[p] |-> start_read[p][n] + stats[p].kept_rows]

C5_AdvanceOnUpdateFlag ==
    [][\A p \in Procs :
          /\ EndsWell(p) /\ ~overlapped
          /\ (IsProcessCsv => UpdateFlag(config[p]))
          => Advanced(p)]_vars

C5_Step ==
    \A p \in Procs :
        /\ EndsWell(p) /\ ~overlapped
        /\ (IsProcessCsv => UpdateFlag(config[p]) /\ AutoFlag(config[p]))
        => Advanced(p)

C5_NoReissue ==
    ~overlapped =>
        \A p \in Procs : Streaming(p) => SequentialCellsWritten(p) \cap issued = {}

C5_CursorAdvances == [][C5_Step]_vars /\ []C5_NoReissue

C5_Witness ==
    \E p \in Procs :
        /\ IsProcessCsv /\ Streaming(p) /\ ~overlapped
        /\ issued = {<<"id", <<"1", "0", "0">>>>, <<"id", <<"1", "0", "1">>>>}
        /\ <<"id", <<"1", "0", "2">>>> \in SequentialCellsWritten(p)

\* C10: two runs of process_csv that both saved the cursor have read the same
\* start, and so written the same values, only if they overlapped: runs that
\* follow one another never do.  Overlapping runs can, and config.json then
\* holds the start advanced by the rows of one of them alone.
Saved(p) ==
    /\ IsProcessCsv /\ Succeeded(p) /\ diag[p] = ""
    /\ UpdateFlag(config[p]) /\ AutoFlag(config[p])
    /\ DOMAIN start_read[p] # {}

SameStartRead ==
    /\ \A p \in Procs : Saved(p) /\ stats[p].kept_rows >= 1
    /\ \A p, q \in Procs : start_read[p] = start_read[q]

LostUpdate ==
    /\ SameStartRead
    /\ \E p \in Procs :
        Cursor(doc) =
            [n \in DOMAIN start_read[p] |-> start_read[p][n] + stats[p].kept_rows]

C10_SerializedIsSafe == ~overlapped => ~SameStartRead

C10_Witness ==
    /\ overlapped /\ LostUpdate
    /\ stats[1].kept_rows = 1 /\ stats[2].kept_rows = 2
    /\ SequentialCellsWritten(1) \cap SequentialCellsWritten(2) # {}

\* C11: the cursor update of process_csv changes nothing in config.json but
\* the start of the sequential generators: the document a run leaves is the
\* one it read in every other key and value, comment keys included, and it
\* is the very same document when the run has no sequential generator or
\* auto_update_config is false.  Stated for runs that do not overlap.
SameButStarts(d, e) ==
    /\ DOMAIN d = DOMAIN e
    /\ \A k \in DOMAIN d \ {"generated_columns"} : d[k] = e[k]
    /\ "generated_columns" \in DOMAIN d =>
        /\ Len(d.generated_columns) = Len(e.generated_columns)
        /\ \A i \in 1..Len(d.generated_columns) :
            LET a == d.generated_columns[i]
                b == e.generated_columns[i]
            IN  /\ a[1] = b[1]
                /\ DOMAIN a[2] \ {"start"} = DOMAIN b[2] \ {"start"}
                /\ \A k \in DOMAIN a[2] \ {"start"} : a[2][k] = b[2][k]
                /\ Get(a[2], "type", "") # "sequential" => a[2] = b[2]

RunEnds(p) == IsProcessCsv /\ pc[p] = "rows" /\ pc'[p] = "done" /\ ~overlapped

C11_Step ==
    \A p \in Procs :
        RunEnds(p) =>
            /\ SameButStarts(doc, doc')
            /\ \/ ~has_sequential(generated_config_of(config[p]))
               \/ ~AutoFlag(config[p])
               => doc' = doc

C11_OnlyStartsChange == [][C11_Step]_vars

====
